---- MODULE Spec2Model ----
(***************************************************************************)
(* promiseChaining.js: five functions that chain four dependent HTTP       *)
(* requests (users -> blogs -> blogposts -> comments), written with        *)
(* callbacks (getComments, getCommentsHandleErrs) and with promises        *)
(* (getCommsPromisified, getCommsPromisified2,                             *)
(* getCommsPromisifiedHandleErrs).                                         *)
(*                                                                         *)
(* A chain execution is one call of one of the five functions.  The        *)
(* collaborators `request` and `request-promise` answer each request with  *)
(* a transport error or with a status code and a body; the handler that    *)
(* the function registered then runs to completion (one action).           *)
(***************************************************************************)
EXTENDS Integers, Sequences, FiniteSets, TLC

VARIABLES chain, crashed

vars == <<chain, crashed>>

(* ------------------------------ bounds -------------------------------- *)

\* ids the API hands out are 1..MaxId
MaxId == 2

Ids == 1..MaxId

ChainIds == 1..4

Usernames == {"peter", "paul"}

PostTitles == {"Promise-Chaining", "Not-A-Real-Post"}

StatusCodes == {200, 201, 404}

TransportErrors == {<<"Error", "ECONNREFUSED">>}

(* --------------------------- JavaScript values ------------------------ *)

JSUndefined == <<"undefined">>

JSNull == <<"null">>

JSNumber(n) == <<"number", n>>

\* an object is modelled by its `id` property (JSUndefined when absent)
JSObject(id) == <<"object", id>>

\* String(v), as `+` applies it to the right operand of a string
JSToString(v) ==
  CASE v[1] = "undefined" -> "undefined"
    [] v[1] = "null"      -> "null"
    [] v[1] = "number"    -> ToString(v[2])
    [] OTHER              -> "[object Object]"

\* the text of a body that holds an object with the given id
IdBody(n) == "{\"id\":" \o ToString(n) \o "}"

\* the bodies the API may answer with: objects with an id, an object
\* without id, the JSON literal null, and text that is not JSON
Bodies == {IdBody(n) : n \in Ids} \cup {"{}", "null", "<html>"}

\* what the collaborator hands to its callback
Responses ==
  {<<"error", e>> : e \in TransportErrors}
    \cup {<<"response", s, b>> : s \in StatusCodes, b \in Bodies}

IsError(resp) == resp[1] = "error"

\* the callback's arguments (err, res, body) of `request`
ErrOf(resp) == IF IsError(resp) THEN resp[2] ELSE JSNull

StatusOf(resp) == resp[2]

\* the text JSON.parse sees: String(body), "undefined" when there is no body
BodyText(resp) == IF IsError(resp) THEN JSToString(JSUndefined) ELSE resp[3]

(* ------------------------------ JSON.parse ---------------------------- *)

\* JSON.parse(text): <<"ok", value>> or <<"throw", SyntaxError>>
JSONparse(text) ==
  IF text = "null" THEN <<"ok", JSNull>>
  ELSE IF text = "{}" THEN <<"ok", JSObject(JSUndefined)>>
  ELSE IF \E n \in Ids : text = IdBody(n)
    THEN <<"ok", JSObject(JSNumber(CHOOSE n \in Ids : text = IdBody(n)))>>
  ELSE <<"throw", <<"SyntaxError", text>>>>

\* v.id: <<"ok", value>>, or <<"throw", TypeError>> when v is null
GetId(v) ==
  IF v[1] = "null" THEN <<"throw", <<"TypeError", "Cannot read property 'id' of null">>>>
  ELSE IF v[1] = "object" THEN <<"ok", v[2]>>
  ELSE <<"ok", JSUndefined>>

(* ------------------------------ locators ------------------------------ *)

apiURL == "http://ctrl-alt-create.net/api/"

UsersURL(username) == apiURL \o "users/" \o username

BlogsURL(id) == apiURL \o "blogs/" \o JSToString(id)

\* the post title left out of the blogposts locator
BlogpostsURLNoTitle(id, postTitle) ==
  apiURL \o "blogposts/" \o JSToString(id)

BlogpostsURL(id, postTitle) ==
  apiURL \o "blogposts/" \o JSToString(id) \o "/" \o postTitle

CommentsURL(id) == apiURL \o "comments/" \o JSToString(id)

\* getCommentsHandleErrs writes the comments locator with a leading slash
CommentsURLHandleErrs(id) == apiURL \o "/comments/" \o JSToString(id)

(* ------------------------------ handlers ------------------------------ *)
(* A handler is given the index of the step whose response arrived        *)
(* (0 users, 1 blogs, 2 blogposts, 3 comments) and yields the sequence of *)
(* its effects, in the order the code performs them:                      *)
(*   <<"request", url, v>>  the next request is issued, v was decoded     *)
(*   <<"callback", args>>   the caller's callback is invoked with args    *)
(*   <<"throw", e>>         the handler throws e                          *)
(*   <<"fulfill", v>>       the returned promise is fulfilled with v      *)
(*   <<"reject", e>>        the returned promise is rejected with e       *)

\* var x = JSON.parse(body), then x.id read for the next locator:
\* <<"throw", e>> or <<"decoded", x, x.id>>
Decode(text) ==
  LET p == JSONparse(text) IN
  IF p[1] = "throw" THEN p
  ELSE LET g == GetId(p[2]) IN
       IF g[1] = "throw" THEN g ELSE <<"decoded", p[2], g[2]>>

\* the locator requested after step `step`, from the id decoded there
NextURL(step, id, postTitle) ==
  CASE step = 0 -> BlogsURL(id)
    [] step = 1 -> BlogpostsURL(id, postTitle)
    [] OTHER    -> CommentsURL(id)

\* the same in getCommentsHandleErrs
NextURLHandleErrs(step, id, postTitle) ==
  CASE step = 0 -> BlogsURL(id)
    [] step = 1 -> BlogpostsURL(id, postTitle)
    [] OTHER    -> CommentsURLHandleErrs(id)

\* err is handed to the callback before the body is looked at
getCommentsTestsErr(step, resp, postTitle) ==
  IF IsError(resp) THEN << <<"callback", <<ErrOf(resp)>>>> >>
  ELSE IF step < 3
    THEN LET d == Decode(BodyText(resp)) IN
         IF d[1] = "throw" THEN <<d>>
         ELSE << <<"request", NextURL(step, d[3], postTitle), d[2]>> >>
    ELSE
         LET p == JSONparse(BodyText(resp))
         IN  IF p[1] = "throw" THEN <<p>> ELSE << <<"callback", <<p[2]>>>> >>

\* the callbacks of getComments: err and res are never looked at
getComments(step, resp, postTitle) ==
  IF step < 3
    THEN LET d == Decode(BodyText(resp)) IN
         IF d[1] = "throw" THEN <<d>>
         ELSE << <<"request", NextURL(step, d[3], postTitle), d[2]>> >>
    ELSE
         LET p == JSONparse(BodyText(resp))
         IN  IF p[1] = "throw" THEN <<p>> ELSE << <<"callback", <<p[2]>>>> >>

\* the status left out of the message
FailedRequestNoStatus(statusCode) == <<"Error", "Failed request">>

\* new Error('Failed request: status ' + res.statusCode)
FailedRequest(statusCode) ==
  <<"Error", "Failed request: status " \o ToString(statusCode)>>

\* the last else branch of a callback of getCommentsHandleErrs
HandleErrsDecode(step, resp, postTitle) ==
  IF step < 3
    THEN LET d == Decode(BodyText(resp)) IN
         IF d[1] = "throw" THEN <<d>>
         ELSE << <<"request", NextURLHandleErrs(step, d[3], postTitle), d[2]>> >>
    ELSE
         LET p == JSONparse(BodyText(resp))
         IN  IF p[1] = "throw" THEN <<p>>
             ELSE << <<"callback", <<JSNull, p[2]>>>> >>

\* a refused status is answered by requesting the users locator once more
HandleErrsRetry(step, resp, postTitle) ==
  IF IsError(resp) THEN << <<"callback", <<ErrOf(resp)>>>> >>
  ELSE IF StatusOf(resp) # 200
    THEN << <<"request", UsersURL("peter"), JSUndefined>> >>
  ELSE HandleErrsDecode(step, resp, postTitle)

\* the status branch without its else: the callback gets the status error
\* and the handler goes on to decode the body
HandleErrsNoElse(step, resp, postTitle) ==
  IF IsError(resp) THEN << <<"callback", <<ErrOf(resp)>>>> >>
  ELSE IF StatusOf(resp) # 200
    THEN << <<"callback", <<FailedRequest(StatusOf(resp))>>>> >>
           \o HandleErrsDecode(step, resp, postTitle)
  ELSE HandleErrsDecode(step, resp, postTitle)

\* the status is not tested at all
HandleErrsNoStatusTest(step, resp, postTitle) ==
  IF IsError(resp) THEN << <<"callback", <<ErrOf(resp)>>>> >>
  ELSE HandleErrsDecode(step, resp, postTitle)

\* only statuses from 400 on are refused
HandleErrsFrom400(step, resp, postTitle) ==
  IF IsError(resp) THEN << <<"callback", <<ErrOf(resp)>>>> >>
  ELSE IF StatusOf(resp) >= 400
    THEN << <<"callback", <<FailedRequest(StatusOf(resp))>>>> >>
  ELSE HandleErrsDecode(step, resp, postTitle)

\* err is not tested before the status
HandleErrsNoErrBranch(step, resp, postTitle) ==
  IF IsError(resp) THEN HandleErrsDecode(step, resp, postTitle)
  ELSE IF StatusOf(resp) # 200
    THEN << <<"callback", <<FailedRequest(StatusOf(resp))>>>> >>
  ELSE HandleErrsDecode(step, resp, postTitle)

\* the callbacks of getCommentsHandleErrs
getCommentsHandleErrs(step, resp, postTitle) ==
  IF IsError(resp) THEN << <<"callback", <<ErrOf(resp)>>>> >>
  ELSE IF StatusOf(resp) # 200
    THEN << <<"callback", <<FailedRequest(StatusOf(resp))>>>> >>
  ELSE HandleErrsDecode(step, resp, postTitle)

\* request-promise with simple: false, which rejects on no status
reqPromiseNotSimple(resp) ==
  IF IsError(resp) THEN <<"reject", <<"RequestError", ErrOf(resp)>>>>
  ELSE <<"resolve", BodyText(resp)>>

\* request-promise with its default options: the promise is rejected on a
\* transport error (RequestError, wrapping the cause) and on a status
\* outside 2xx (StatusCodeError), and resolved with the body otherwise
reqPromise(resp) ==
  IF IsError(resp) THEN <<"reject", <<"RequestError", ErrOf(resp)>>>>
  ELSE IF StatusOf(resp) \div 100 # 2
    THEN <<"reject", <<"StatusCodeError", StatusOf(resp)>>>>
  ELSE <<"resolve", BodyText(resp)>>

\* the .then bodies, the same text in the three promise functions
ThenBody(step, body, postTitle) ==
  IF step < 3
    THEN LET d == Decode(body) IN
         IF d[1] = "throw" THEN <<d>>
         ELSE << <<"request", NextURL(step, d[3], postTitle), d[2]>> >>
    ELSE
         LET p == JSONparse(body)
         IN  IF p[1] = "throw" THEN <<p>> ELSE << <<"fulfill", p[2]>> >>

\* an exception thrown inside a .then body rejects the chain
Caught(effs) ==
  [i \in DOMAIN effs |->
     IF effs[i][1] = "throw" THEN <<"reject", effs[i][2]>> ELSE effs[i]]

\* a link of a promise chain: a rejection skips every later .then body
ChainLink(step, resp, postTitle) ==
  LET s == reqPromise(resp) IN
  IF s[1] = "reject" THEN <<s>>
  ELSE Caught(ThenBody(step, s[2], postTitle))

getCommsPromisified(step, resp, postTitle) == ChainLink(step, resp, postTitle)

getCommsPromisified2(step, resp, postTitle) == ChainLink(step, resp, postTitle)

\* the link that requests the comments left out: the third .then body
\* returns the decoded post
PromisifiedSkipsComments(step, resp, postTitle) ==
  ChainLink(IF step = 2 THEN 3 ELSE step, resp, postTitle)

getCommsPromisifiedHandleErrs(step, resp, postTitle) ==
  ChainLink(step, resp, postTitle)

CallbackFns == {"getComments", "getCommentsHandleErrs"}

PromiseFns ==
  {"getCommsPromisified", "getCommsPromisified2", "getCommsPromisifiedHandleErrs"}

Fns == CallbackFns \cup PromiseFns

\* whether the caller ends the chain with .catch
CallerCatches(fn) == fn = "getCommsPromisifiedHandleErrs"

(* -------------------------------- state ------------------------------- *)
(* chain[c]   one record per chain execution:                             *)
(*   state      "idle" (not called), "waiting" (a request is              *)
(*              outstanding), "done" (nothing left to run), "thrown"      *)
(*              (its handler threw outside any promise)                   *)
(*   requests   the locators requested so far, in order                   *)
(*   responses  the responses received so far, in order                   *)
(*   locals     the decoded user, blog and post                           *)
(*   calls      the argument lists of the caller's callback invocations   *)
(*   settled    the settlements of the returned promise                   *)
(*   handled    the caller's handlers that ran on the returned promise    *)
(* crashed    <<"no">>, or <<"uncaughtException", e>>: the process died   *)

Idle ==
  [fn |-> "none", username |-> "", postTitle |-> "", state |-> "idle",
   requests |-> <<>>, responses |-> <<>>, locals |-> <<>>,
   calls |-> <<>>, settled |-> <<>>, handled |-> <<>>]

Init ==
  /\ chain = [c \in ChainIds |-> Idle]
  /\ crashed = <<"no">>

Alive == crashed[1] = "no"

\* a result kept from one execution to the next: a call with the arguments
\* of a finished execution hands its result over and requests nothing
CallMemoized(c, fn, username, postTitle) ==
  /\ Alive
  /\ chain[c].state = "idle"
  /\ LET same == {o \in DOMAIN chain :
                    /\ chain[o].state = "done" /\ chain[o].fn = fn
                    /\ chain[o].username = username
                    /\ chain[o].postTitle = postTitle}
     IN  chain' = [chain EXCEPT ![c] =
           IF same = {}
             THEN [Idle EXCEPT !.fn = fn, !.username = username,
                               !.postTitle = postTitle, !.state = "waiting",
                               !.requests = <<UsersURL(username)>>]
             ELSE [chain[CHOOSE o \in same : TRUE] EXCEPT
                     !.requests = <<>>, !.responses = <<>>, !.locals = <<>>]]
  /\ UNCHANGED crashed

\* the call of a chain function: its first request is issued
Call(c, fn, username, postTitle) ==
  /\ Alive
  /\ chain[c].state = "idle"
  /\ chain' = [chain EXCEPT ![c] =
       [Idle EXCEPT !.fn = fn, !.username = username,
                    !.postTitle = postTitle, !.state = "waiting",
                    !.requests = <<UsersURL(username)>>]]
  /\ UNCHANGED crashed

\* the caller's handlers on the returned promise
CallerHandles(fn, settlement) ==
  IF settlement[1] = "fulfilled" THEN <<"then", settlement[2]>>
  ELSE IF CallerCatches(fn) THEN <<"catch", settlement[2]>>
  ELSE <<"unhandledRejection", settlement[2]>>

\* a promise settles once: a later resolve or reject is ignored
Settle(ch, settlement) ==
  IF ch.settled # <<>> THEN ch
  ELSE [ch EXCEPT !.settled = <<settlement>>,
                  !.handled = <<CallerHandles(ch.fn, settlement)>>]

\* the chain record after one effect
ApplyEffect(ch, eff) ==
  CASE eff[1] = "request" ->
         [ch EXCEPT !.requests = Append(@, eff[2]),
                    !.locals = Append(@, eff[3])]
    [] eff[1] = "callback" -> [ch EXCEPT !.calls = Append(@, eff[2])]
    [] eff[1] = "fulfill" -> Settle(ch, <<"fulfilled", eff[2]>>)
    [] eff[1] = "reject" -> Settle(ch, <<"rejected", eff[2]>>)

\* the effects up to the first throw, which ends the handler
BeforeThrow(effs) ==
  LET thrown == {i \in DOMAIN effs : effs[i][1] = "throw"} IN
  IF thrown = {} THEN effs
  ELSE SubSeq(effs, 1, (CHOOSE i \in thrown : \A j \in thrown : i <= j) - 1)

RECURSIVE ApplyEffects(_, _)
ApplyEffects(ch, effs) ==
  IF effs = <<>> THEN ch
  ELSE ApplyEffects(ApplyEffect(ch, Head(effs)), Tail(effs))

Throws(effs) == \E i \in DOMAIN effs : effs[i][1] = "throw"

\* the chain record after the handler ran on resp
After(ch, resp, effs) ==
  LET ran == ApplyEffects([ch EXCEPT !.responses = Append(@, resp)],
                          BeforeThrow(effs))
  IN  [ran EXCEPT !.state =
         IF Throws(effs) THEN "thrown"
         ELSE IF Len(ran.requests) > Len(ran.responses) THEN "waiting"
         ELSE "done"]

\* an exception thrown in a callback of `request` is caught by nobody
CrashedAfter(effs) ==
  IF Throws(effs)
    THEN <<"uncaughtException", effs[Len(BeforeThrow(effs)) + 1][2]>>
    ELSE crashed

\* a rejection that met no handler: the runtime reports it, and, depending on
\* the runtime, goes on or ends the process
UnhandledAfter(ch) ==
  IF ch.handled # <<>> /\ ch.handled[1][1] = "unhandledRejection"
    THEN {crashed, <<"unhandledRejection", ch.handled[1][2]>>}
    ELSE {crashed}

\* what may have become of the process when the handler has run
ExitsAfter(ch, effs) ==
  IF Throws(effs) THEN {CrashedAfter(effs)} ELSE UnhandledAfter(ch)

StepOf(ch) == Len(ch.responses)

\* the handler of chain function fn on the response of step `step`
Handler(fn, step, resp, postTitle) ==
  CASE fn = "getComments" -> getComments(step, resp, postTitle)
    [] fn = "getCommentsHandleErrs" -> getCommentsHandleErrs(step, resp, postTitle)
    [] fn = "getCommsPromisified" -> getCommsPromisified(step, resp, postTitle)
    [] fn = "getCommsPromisified2" -> getCommsPromisified2(step, resp, postTitle)
    [] fn = "getCommsPromisifiedHandleErrs" ->
         getCommsPromisifiedHandleErrs(step, resp, postTitle)

\* the post title kept in one variable for all executions: the title of
\* another execution in progress is the one a handler reads
SharedTitle(c) ==
  LET others == {o \in DOMAIN chain \ {c} : chain[o].state # "idle"}
  IN  IF others = {} THEN chain[c].postTitle
                     ELSE chain[CHOOSE o \in others : TRUE].postTitle

RespondSharedTitle(c, resp) ==
  /\ Alive
  /\ chain[c].state = "waiting"
  /\ LET ch == chain[c]
         effs == Handler(ch.fn, StepOf(ch), resp, SharedTitle(c))
     IN  /\ chain' = [chain EXCEPT ![c] = After(ch, resp, effs)]
         /\ crashed' \in ExitsAfter(After(ch, resp, effs), effs)

\* the collaborator answers the outstanding request of chain c
Respond(c, resp) ==
  /\ Alive
  /\ chain[c].state = "waiting"
  /\ LET ch == chain[c]
         effs == Handler(ch.fn, StepOf(ch), resp, ch.postTitle)
     IN  /\ chain' = [chain EXCEPT ![c] = After(ch, resp, effs)]
         /\ crashed' \in ExitsAfter(After(ch, resp, effs), effs)

\* one chain execution
Next ==
  \/ \E fn \in Fns, u \in Usernames, t \in PostTitles : Call(1, fn, u, t)
  \/ \E resp \in Responses : Respond(1, resp)

Spec == Init /\ [][Next]_vars

(* --------------------- the same call made twice ----------------------- *)
(* A second execution is started when the first has finished, with the    *)
(* same arguments, against a collaborator that answers a locator it has   *)
(* answered before in the same way.  The second call is of the same       *)
(* function, or of getCommsPromisifiedHandleErrs after                    *)
(* getCommentsHandleErrs, the version the source compares it to.          *)

\* the locator of the outstanding request of chain c
Outstanding(c) == chain[c].requests[Len(chain[c].requests)]

\* the answers the collaborator has given to a locator
Answered(url) ==
  {chain[p[1]].responses[p[2]] :
     p \in {q \in ChainIds \X (1..4) :
              /\ q[2] <= Len(chain[q[1]].responses)
              /\ chain[q[1]].requests[q[2]] = url}}

\* a deterministic collaborator may answer chain c with resp
Deterministic(c, resp) == Answered(Outstanding(c)) \subseteq {resp}

CallAgain ==
  /\ chain[1].state = "done"
  /\ Call(2, chain[1].fn, chain[1].username, chain[1].postTitle)

CallPromisified ==
  /\ chain[1].state = "done"
  /\ chain[1].fn = "getCommentsHandleErrs"
  /\ Call(2, "getCommsPromisifiedHandleErrs", chain[1].username,
          chain[1].postTitle)

RespondAgain(resp) ==
  /\ chain[2].state = "waiting"
  /\ Deterministic(2, resp)
  /\ Respond(2, resp)

TwiceNext ==
  \/ \E fn \in Fns : Call(1, fn, "peter", "Promise-Chaining")
  \/ \E resp \in Responses : Respond(1, resp)
  \/ CallAgain
  \/ CallPromisified
  \/ \E resp \in Responses : RespondAgain(resp)

TwiceSpec == Init /\ [][TwiceNext]_vars

(* ------------------------- the caller's reading ----------------------- *)

HandleErrsFns == {"getCommentsHandleErrs", "getCommsPromisifiedHandleErrs"}

\* if (err) of the caller's callback
Truthy(v) == v[1] \notin {"null", "undefined"}

\* what the caller of a chain was given: <<"Pending">>, <<"Success", v>> or
\* <<"Failure", e>>.  getComments' callback takes the comments; the callback
\* of getCommentsHandleErrs takes (err, comments) and tests err; a promise
\* delivers its settlement.
Outcome(ch) ==
  IF ch.fn = "getComments"
    THEN IF ch.calls = <<>> THEN <<"Pending">>
         ELSE <<"Success", ch.calls[1][1]>>
  ELSE IF ch.fn = "getCommentsHandleErrs"
    THEN IF ch.calls = <<>> THEN <<"Pending">>
         ELSE IF Truthy(ch.calls[1][1]) THEN <<"Failure", ch.calls[1][1]>>
         ELSE <<"Success", IF Len(ch.calls[1]) > 1 THEN ch.calls[1][2]
                           ELSE JSUndefined>>
  ELSE IF ch.settled = <<>> THEN <<"Pending">>
  ELSE IF ch.settled[1][1] = "fulfilled" THEN <<"Success", ch.settled[1][2]>>
  ELSE <<"Failure", ch.settled[1][2]>>

(* ------------------------------ properties ---------------------------- *)

Decodable(resp) == ~IsError(resp) /\ JSONparse(resp[3])[1] = "ok"

Decoded(resp) == JSONparse(resp[3])[2]

\* status 200 and a body JSON.parse decodes
Ok200(resp) == ~IsError(resp) /\ StatusOf(resp) = 200 /\ Decodable(resp)

\* String(x.id) of the value decoded from the body of resp
IdText(resp) == JSToString(GetId(Decoded(resp))[2])

AllFourOk200(ch) ==
  /\ Len(ch.responses) = 4
  /\ \A k \in 1..4 : Ok200(ch.responses[k])

\* C1: in an execution of any of the five chain functions in which all four
\* requests were answered with status 200 and a decodable body, exactly the
\* four requests users, blogs, blogposts, comments were issued in that
\* order, each locator built from the id decoded from the previous response
\* (and the caller's post title), and the caller was given Success with the
\* decoded body of the comments response.
C1_AllSucceed ==
  \A c \in ChainIds :
    LET ch == chain[c] IN
    AllFourOk200(ch) =>
      /\ Len(ch.requests) = 4
      /\ ch.requests[1] = apiURL \o "users/" \o ch.username
      /\ ch.requests[2] = apiURL \o "blogs/" \o IdText(ch.responses[1])
      /\ ch.requests[3] = apiURL \o "blogposts/" \o IdText(ch.responses[2])
                            \o "/" \o ch.postTitle
      /\ ch.requests[4] \in {apiURL \o "comments/" \o IdText(ch.responses[3]),
                             apiURL \o "/comments/" \o IdText(ch.responses[3])}
      /\ Outcome(ch) = <<"Success", Decoded(ch.responses[4])>>

\* all four steps of getComments succeeded, with different ids along the way
C1_Witness ==
  /\ chain[1].fn = "getComments"
  /\ AllFourOk200(chain[1])
  /\ IdText(chain[1].responses[1]) = "1"
  /\ IdText(chain[1].responses[2]) = "2"
  /\ Outcome(chain[1])[1] = "Success"

\* a failure as the specification counts it: a transport error, a status
\* other than 200, or a body JSON.parse cannot decode
FailsAsSpecified(resp) ==
  \/ IsError(resp)
  \/ StatusOf(resp) # 200
  \/ ~Decodable(resp)

\* C2, for getCommentsHandleErrs: once a step has failed (transport error,
\* status other than 200, or undecodable body) no request of a later step
\* is issued and the err branch of the caller's callback has been reached.
C2_ShortCircuit ==
  \A c \in ChainIds :
    LET ch == chain[c] IN
    ch.fn = "getCommentsHandleErrs" =>
      \A k \in 1..Len(ch.responses) :
        FailsAsSpecified(ch.responses[k]) =>
          /\ k = Len(ch.responses)
          /\ Len(ch.requests) = k
          /\ Outcome(ch)[1] = "Failure"

\* C2, for getCommsPromisifiedHandleErrs: the same, the handler reached
\* being the caller's .catch.
C2_ShortCircuitPromisified ==
  \A c \in ChainIds :
    LET ch == chain[c] IN
    ch.fn = "getCommsPromisifiedHandleErrs" =>
      \A k \in 1..Len(ch.responses) :
        FailsAsSpecified(ch.responses[k]) =>
          /\ k = Len(ch.responses)
          /\ Len(ch.requests) = k
          /\ ch.handled # <<>> /\ ch.handled[1][1] = "catch"

\* C3: the caller's callback is invoked at most once, the returned promise
\* settles at most once and at most one of the caller's handlers runs, and
\* no invocation carries both an error and a comments value.
C3_ResolvesOnce ==
  \A c \in ChainIds :
    LET ch == chain[c] IN
    /\ Len(ch.calls) <= 1
    /\ Len(ch.settled) <= 1
    /\ Len(ch.handled) <= 1
    /\ ch.calls = <<>> \/ ch.settled = <<>>
    /\ \A i \in DOMAIN ch.calls :
         ch.fn = "getCommentsHandleErrs" /\ Truthy(ch.calls[i][1])
           => Len(ch.calls[i]) = 1

\* getCommentsHandleErrs delivered a status failure at its third step
C3_Witness ==
  /\ chain[1].fn = "getCommentsHandleErrs"
  /\ Len(chain[1].responses) = 3
  /\ ~IsError(chain[1].responses[3])
  /\ StatusOf(chain[1].responses[3]) = 404
  /\ Decodable(chain[1].responses[3])
  /\ GetId(Decoded(chain[1].responses[3]))[1] = "ok"
  /\ Len(chain[1].calls) = 1

Delivered(ch) == Outcome(ch)[1] \in {"Success", "Failure"}

\* C4: an execution of getCommentsHandleErrs or getCommsPromisifiedHandleErrs
\* that has no request outstanding (the collaborator answering every request,
\* nothing else can keep it running) has delivered Success or Failure to its
\* caller.
C4_StopsOnlyDelivered ==
  \A c \in ChainIds :
    LET ch == chain[c] IN
    ch.fn \in HandleErrsFns /\ ch.state # "waiting" => Delivered(ch)

\* the statuses a chain function goes on from: request-promise accepts 2xx,
\* getCommentsHandleErrs 200 alone, getComments does not look
Accepts(fn, status) ==
  CASE fn = "getCommentsHandleErrs" -> status = 200
    [] fn = "getComments" -> TRUE
    [] OTHER -> status \in 200..299

Only200(fn, status) == status = 200

\* the failure that reports the status: the Error getCommentsHandleErrs makes,
\* the StatusCodeError of request-promise
IsStatusFailure(e, status) ==
  \/ e = <<"Error", "Failed request: status " \o ToString(status)>>
  \/ e = <<"StatusCodeError", status>>

\* the body decodes to something whose id can be read
DecodesToNonNull(resp) == Decodable(resp) /\ Decoded(resp)[1] # "null"

\* with accepts(fn, status) saying which statuses count as success: a
\* refused status halts the chain with a Failure that carries the status,
\* whatever the body; an accepted status lets the body be used
StatusBoundary(accepts(_, _)) ==
  \A c \in ChainIds :
    LET ch == chain[c] IN
    \A k \in 1..Len(ch.responses) :
      LET r == ch.responses[k] IN
      ~IsError(r) =>
        /\ ~accepts(ch.fn, StatusOf(r)) =>
             /\ k = Len(ch.responses)
             /\ Len(ch.requests) = k
             /\ Outcome(ch)[1] = "Failure"
             /\ IsStatusFailure(Outcome(ch)[2], StatusOf(r))
        /\ accepts(ch.fn, StatusOf(r)) =>
             /\ k < 4 /\ DecodesToNonNull(r) => Len(ch.requests) > k
             /\ k = 4 /\ Decodable(r) => Outcome(ch) = <<"Success", Decoded(r)>>

\* C5 as claimed: in every chain function status 200 is success and every
\* other status halts the chain with a Failure carrying the status.
C5_StatusBoundary == StatusBoundary(Only200)

\* C5 amended: the same with the statuses each function accepts: 200 in
\* getCommentsHandleErrs, 2xx in the promise functions, any in getComments.
C5_StatusBoundaryAmended == StatusBoundary(Accepts)

\* a promise chain went on from a 201 and was halted by the 404 that followed
C5_Witness ==
  /\ chain[1].fn = "getCommsPromisifiedHandleErrs"
  /\ Len(chain[1].responses) = 2
  /\ chain[1].responses[1] = <<"response", 201, IdBody(1)>>
  /\ chain[1].responses[2] = <<"response", 404, IdBody(2)>>
  /\ Outcome(chain[1]) = <<"Failure", <<"StatusCodeError", 404>>>>

\* C6: in getCommentsHandleErrs and getCommsPromisifiedHandleErrs a response
\* with status 200 whose body JSON.parse cannot decode gives the caller a
\* Failure that is the parse error, and the process has not crashed.
C6_ParseBoundary ==
  \A c \in ChainIds :
    LET ch == chain[c] IN
    ch.fn \in HandleErrsFns =>
      \A k \in 1..Len(ch.responses) :
        LET r == ch.responses[k] IN
        ~IsError(r) /\ StatusOf(r) = 200 /\ ~Decodable(r) =>
          /\ Alive
          /\ Outcome(ch)[1] = "Failure"
          /\ Outcome(ch)[2][1] = "SyntaxError"

\* the Failure carries the collaborator's cause, as it is or wrapped
CarriesCause(e, cause) == e = cause \/ e = <<"RequestError", cause>>

\* C7 as claimed: in every chain function a transport error at any step
\* leaves the process alive and gives the caller a Failure carrying the cause.
C7_TransportNeverFatal ==
  \A c \in ChainIds :
    LET ch == chain[c] IN
    \A k \in 1..Len(ch.responses) :
      LET r == ch.responses[k] IN
      IsError(r) =>
        /\ Alive
        /\ Outcome(ch)[1] = "Failure"
        /\ CarriesCause(Outcome(ch)[2], r[2])

\* C7 amended: a transport error at any step halts the chain; in
\* getCommentsHandleErrs the callback gets the cause itself, in
\* getCommsPromisifiedHandleErrs the caller's .catch gets the RequestError
\* wrapping it, and the process stays alive; in the other promise functions
\* the same rejection meets no handler; getComments throws out of the
\* callback (JSON.parse of no body) and the process dies.
C7_TransportAmended ==
  \A c \in ChainIds :
    LET ch == chain[c] IN
    \A k \in 1..Len(ch.responses) :
      LET r == ch.responses[k] IN
      IsError(r) =>
        /\ k = Len(ch.responses) /\ Len(ch.requests) = k
        /\ ch.fn = "getCommentsHandleErrs" =>
             Alive /\ ch.calls = << <<r[2]>> >>
        /\ ch.fn = "getCommsPromisifiedHandleErrs" =>
             /\ Alive
             /\ ch.settled = << <<"rejected", <<"RequestError", r[2]>>>> >>
             /\ ch.handled = << <<"catch", <<"RequestError", r[2]>>>> >>
        /\ ch.fn \in PromiseFns \ HandleErrsFns =>
             /\ ch.settled = << <<"rejected", <<"RequestError", r[2]>>>> >>
             /\ ch.handled = << <<"unhandledRejection", <<"RequestError", r[2]>>>> >>
        /\ ch.fn = "getComments" =>
             /\ crashed[1] = "uncaughtException"
             /\ crashed[2][1] = "SyntaxError"
             /\ ch.calls = <<>>

\* getCommentsHandleErrs met a transport error at its third step
C7_Witness ==
  /\ chain[1].fn = "getCommentsHandleErrs"
  /\ Len(chain[1].responses) = 3
  /\ IsError(chain[1].responses[3])
  /\ Outcome(chain[1])[1] = "Failure"

\* with accepted(fn, resp) saying which responses let the chain go on: at
\* most one request is outstanding, and every request but the first was
\* issued after the previous one was answered with such a response
OneAtATime(accepted(_, _)) ==
  \A c \in ChainIds :
    LET ch == chain[c] IN
    /\ Len(ch.requests) - Len(ch.responses) \in {0, 1}
    /\ (Len(ch.requests) > Len(ch.responses)) <=> (ch.state = "waiting")
    /\ \A k \in 1..(Len(ch.requests) - 1) : accepted(ch.fn, ch.responses[k])

Accepted200(fn, resp) == Ok200(resp)

AcceptedBy(fn, resp) ==
  ~IsError(resp) /\ Accepts(fn, StatusOf(resp)) /\ DecodesToNonNull(resp)

\* C8 as claimed: at most one request is outstanding, and the request of
\* step k+1 is issued only after step k was answered with status 200 and a
\* decodable body.
C8_OneAtATime == OneAtATime(Accepted200)

\* C8 amended: at most one request is outstanding, and the request of step
\* k+1 is issued only after step k was answered with a body that decodes to
\* a non-null value and a status the function accepts (200 in
\* getCommentsHandleErrs, 2xx in the promise functions, any in getComments).
C8_OneAtATimeAmended == OneAtATime(AcceptedBy)

\* getCommsPromisified2 waits for its fourth response after three accepted
C8_Witness ==
  /\ chain[1].fn = "getCommsPromisified2"
  /\ chain[1].state = "waiting"
  /\ Len(chain[1].requests) = 4
  /\ Len(chain[1].responses) = 3

\* the handler of fn at `step` can hand the failure e to the caller
CanFailWith(fn, step, postTitle, e) ==
  \E r \in Responses :
    LET effs == Handler(fn, step, r, postTitle) IN
    \E n \in DOMAIN effs :
      effs[n] = <<"callback", <<e>>>> \/ effs[n] = <<"reject", e>>

\* C9 as claimed: the Failure delivered carries the index of the failing
\* step, so no other step can deliver the same Failure.
C9_FailureCarriesIndex ==
  \A c \in ChainIds :
    LET ch == chain[c] IN
    ch.fn \in HandleErrsFns /\ Outcome(ch)[1] = "Failure" =>
      \A j \in 0..3 :
        j # Len(ch.responses) - 1 =>
          ~CanFailWith(ch.fn, j, ch.postTitle, Outcome(ch)[2])

\* the failure the code records for a response it does not go on from
CauseOf(fn, r) ==
  IF fn = "getCommentsHandleErrs"
    THEN IF IsError(r) THEN r[2]
         ELSE <<"Error", "Failed request: status " \o ToString(StatusOf(r))>>
  ELSE IF IsError(r) THEN <<"RequestError", r[2]>>
  ELSE IF StatusOf(r) \notin 200..299 THEN <<"StatusCodeError", StatusOf(r)>>
  ELSE IF ~Decodable(r) THEN <<"SyntaxError", r[3]>>
  ELSE <<"TypeError", "Cannot read property 'id' of null">>

\* C9 amended: a Failure delivered by getCommentsHandleErrs or
\* getCommsPromisifiedHandleErrs is the cause recorded at the first step that
\* failed (the transport error, alone or wrapped in a RequestError; the
\* error made from the status; in the promise version the exception thrown
\* by the .then body), every earlier step was accepted, and the chain went
\* no further; the Failure carries no step index.
C9_FailureIsFirstCause ==
  \A c \in ChainIds :
    LET ch == chain[c]
        n == Len(ch.responses)
    IN  ch.fn \in HandleErrsFns /\ Outcome(ch)[1] = "Failure" =>
          /\ n >= 1 /\ Len(ch.requests) = n
          /\ \A k \in 1..(n - 1) : AcceptedBy(ch.fn, ch.responses[k])
          /\ ~(n < 4 /\ AcceptedBy(ch.fn, ch.responses[n]))
          /\ Outcome(ch)[2] = CauseOf(ch.fn, ch.responses[n])

\* getCommentsHandleErrs delivered the error made from a 404 at its second
\* step, the same error its first step makes from a 404
C9_Witness ==
  /\ chain[1].fn = "getCommentsHandleErrs"
  /\ Len(chain[1].responses) = 2
  /\ Outcome(chain[1]) = <<"Failure", <<"Error", "Failed request: status 404">>>>
  /\ CanFailWith("getCommentsHandleErrs", 0, chain[1].postTitle, Outcome(chain[1])[2])

\* with ok(fn, resp) saying which responses count as successful steps:
\* comments are delivered only after four such steps, and a Failure comes
\* alone, with no comments and no user, blog or post beside it
AllOrNothing(ok(_, _)) ==
  \A c \in ChainIds :
    LET ch == chain[c] IN
    ch.fn \in HandleErrsFns =>
      /\ Outcome(ch)[1] = "Success" =>
           /\ Len(ch.responses) = 4
           /\ \A k \in 1..4 : ok(ch.fn, ch.responses[k])
      /\ Outcome(ch)[1] = "Failure" =>
           /\ \A i \in DOMAIN ch.calls : Len(ch.calls[i]) = 1
           /\ \A i \in DOMAIN ch.handled : ch.handled[i][1] # "then"
           /\ Outcome(ch)[2][1] \notin {"object", "null", "undefined"}

AcceptedLast(fn, resp) ==
  ~IsError(resp) /\ Accepts(fn, StatusOf(resp)) /\ Decodable(resp)

\* C10 as claimed: comments are delivered only when all four steps returned
\* status 200 with a decodable body, and a Failure is delivered alone.
C10_AllOrNothing == AllOrNothing(Accepted200)

\* C10 amended: comments are delivered only when all four steps returned a
\* decodable body with a status the function accepts (200 in
\* getCommentsHandleErrs, 2xx in getCommsPromisifiedHandleErrs), and a
\* Failure is delivered alone.
C10_AllOrNothingAmended == AllOrNothing(AcceptedLast)

\* getCommsPromisifiedHandleErrs delivered comments after a 201 on the way
C10_Witness ==
  /\ chain[1].fn = "getCommsPromisifiedHandleErrs"
  /\ Len(chain[1].responses) = 4
  /\ StatusOf(chain[1].responses[2]) = 201
  /\ Outcome(chain[1])[1] = "Success"

NoHandlingFns == Fns \ HandleErrsFns

RejectsOn(resp) ==
  \/ IsError(resp)
  \/ StatusOf(resp) \notin 200..299
  \/ ~Decodable(resp)

ConcIds == {1, 2}

ConcUsername(c) == IF c = 1 THEN "peter" ELSE "paul"
ConcTitle(c) == IF c = 1 THEN "Promise-Chaining" ELSE "Not-A-Real-Post"

\* the answers considered: a transport error and an object with the least
\* or the greatest id
ConcResponses ==
  {<<"error", e>> : e \in TransportErrors}
    \cup {<<"response", 200, IdBody(n)>> : n \in {1, MaxId}}

ConcNext ==
  \E c \in ConcIds :
    \/ \E fn \in Fns : Call(c, fn, ConcUsername(c), ConcTitle(c))
    \/ \E resp \in ConcResponses : Respond(c, resp)

ConcSpec == Init /\ [][ConcNext]_vars

\* the execution of fn(username, postTitle) on its own, just called
Started(fn, username, postTitle) ==
  [Idle EXCEPT !.fn = fn, !.username = username, !.postTitle = postTitle,
               !.state = "waiting", !.requests = <<UsersURL(username)>>]

RECURSIVE ReplayFrom(_, _)
\* the execution ch after the answers resps, nothing else happening
ReplayFrom(ch, resps) ==
  IF resps = <<>> THEN ch
  ELSE ReplayFrom(After(ch, Head(resps),
                        Handler(ch.fn, StepOf(ch), Head(resps), ch.postTitle)),
                  Tail(resps))

\* what the execution ch is when it runs alone and gets the answers ch got
Alone(ch) ==
  ReplayFrom(Started(ch.fn, ch.username, ch.postTitle), ch.responses)

\* every execution is what it is alone: its requests, its intermediate
\* values and its outcome come from its own arguments and answers
AsAlone ==
  \A c \in ConcIds : chain[c].state # "idle" => chain[c] = Alone(chain[c])

\* execution c ended the process
Killed(c) ==
  \/ chain[c].state = "thrown"
  \/ /\ crashed[1] = "unhandledRejection"
     /\ chain[c].handled # <<>>
     /\ chain[c].handled[1][1] = "unhandledRejection"

ScriptFn(c) ==
  CASE c = 1 -> "getComments"
    [] c = 2 -> "getCommsPromisified"
    [] c = 3 -> "getCommentsHandleErrs"
    [] c = 4 -> "getCommsPromisifiedHandleErrs"

ScriptTitle(c) ==
  CASE c \in {1, 2} -> "Promise-Chaining"
    [] c = 3 -> "Not-A-Real-Post"
    [] c = 4 -> "Will-Cause-An-Error"

\* the answers considered: a transport error, a refused status, a body that
\* does not decode and an object with an id
ScriptResponses ==
  {<<"error", e>> : e \in TransportErrors}
    \cup {<<"response", 404, "{}">>, <<"response", 200, "<html>">>,
          <<"response", 200, IdBody(MaxId)>>}

\* a script that makes its calls one below the other instead of one inside
\* the other's callback: the next call is made whatever the execution did
ScriptCallsAtOnce(c, ch) == c < 4

\* the caller's code that makes the next call has run: the callback given
\* to getComments or getCommentsHandleErrs was invoked, or the .then
\* handlers on the promise of getCommsPromisified were
ScriptCallsNext(c, ch) ==
  CASE c \in {1, 3} -> ch.calls # <<>>
    [] c = 2 -> ch.handled # <<>> /\ ch.handled[1][1] = "then"
    [] c = 4 -> FALSE

ScriptStart ==
  Call(1, ScriptFn(1), "peter", ScriptTitle(1))

\* the answer to the outstanding request of execution c; the handler that
\* delivers the outcome runs the caller's code, which makes the next call
ScriptRespond(c, resp) ==
  /\ Alive
  /\ chain[c].state = "waiting"
  /\ LET ch == chain[c]
         effs == Handler(ch.fn, StepOf(ch), resp, ch.postTitle)
         ran == After(ch, resp, effs)
     IN  /\ chain' =
              IF ~Throws(effs) /\ ScriptCallsNext(c, ran)
                THEN [chain EXCEPT ![c] = ran,
                        ![c + 1] = Started(ScriptFn(c + 1), "peter",
                                           ScriptTitle(c + 1))]
                ELSE [chain EXCEPT ![c] = ran]
         /\ crashed' \in ExitsAfter(ran, effs)

ScriptNext ==
  \/ ScriptStart
  \/ \E c \in ChainIds, resp \in ScriptResponses : ScriptRespond(c, resp)

ScriptSpec == Init /\ [][ScriptNext]_vars

\* the calls are made in the order of the script, each when the execution
\* before it has delivered its outcome, and no two have a request outstanding
InScriptOrder ==
  /\ \A c \in ChainIds : chain[c].fn \in {"none", ScriptFn(c)}
  /\ \A c \in 1..3 :
       chain[c + 1].state # "idle" =>
         chain[c].state = "done" /\ Delivered(chain[c])
  /\ Cardinality({c \in ChainIds : chain[c].state = "waiting"}) <= 1

Rejected(ch) == ch.settled # <<>> /\ ch.settled[1][1] = "rejected"

\* C15 as stated: the four demonstrations run one after another in the order
\* getComments, getCommsPromisified, getCommentsHandleErrs,
\* getCommsPromisifiedHandleErrs, each first request issued after the outcome
\* of the demonstration before was delivered, no two with requests
\* outstanding together, and every rejection of a promisified demonstration
\* reaches a .catch handler.
C15_OneAfterAnother ==
  /\ InScriptOrder
  /\ \A c \in {2, 4} :
       Rejected(chain[c]) => chain[c].handled[1][1] = "catch"

\* C15 amended: the order and the one request outstanding hold; a rejection
\* of getCommsPromisifiedHandleErrs reaches the .catch handler; a rejection
\* of getCommsPromisified reaches no handler and the two demonstrations
\* after it are never called.
C15_OneAfterAnotherAmended ==
  /\ InScriptOrder
  /\ Rejected(chain[4]) => chain[4].handled[1][1] = "catch"
  /\ Rejected(chain[2]) =>
       /\ chain[2].handled[1][1] = "unhandledRejection"
       /\ chain[3].state = "idle" /\ chain[4].state = "idle"

\* all four demonstrations ran, the last one rejected into its .catch
C15_Witness ==
  /\ \A c \in ChainIds : chain[c].state = "done" /\ chain[c].fn = ScriptFn(c)
  /\ Rejected(chain[4]) /\ chain[4].handled[1][1] = "catch"
  /\ Outcome(chain[3])[1] = "Failure"

\* chain 2 repeats chain 1 up to where it has got
RepeatsSoFar ==
  /\ Len(chain[2].requests) <= Len(chain[1].requests)
  /\ \A k \in 1..Len(chain[2].requests) :
       chain[2].requests[k] = chain[1].requests[k]
  /\ \A k \in 1..Len(chain[2].responses) :
       chain[2].responses[k] = chain[1].responses[k]

C14_SameLocators ==
  /\ chain[1].fn = "getCommentsHandleErrs"
  /\ chain[2].fn = "getCommsPromisifiedHandleErrs"
  => \A k \in DOMAIN chain[1].requests \cap DOMAIN chain[2].requests :
       chain[2].requests[k] = chain[1].requests[k]

\* C14, the outcome: both versions finish with Success and the same value,
\* or both with a Failure at the same step.
C14_SameOutcome ==
  /\ chain[1].fn = "getCommentsHandleErrs"
  /\ chain[2].fn = "getCommsPromisifiedHandleErrs"
  /\ chain[2].state \in {"done", "thrown"}
  => /\ Outcome(chain[2])[1] = Outcome(chain[1])[1]
     /\ Len(chain[2].responses) = Len(chain[1].responses)
     /\ Outcome(chain[1])[1] = "Success" => Outcome(chain[2]) = Outcome(chain[1])

====
